---------------------------- MODULE Spec2Model ----------------------------
(***************************************************************************)
(* Duplicate-file finder of Chuns-Random-Utilities: FileInfo,              *)
(* scan_directory, get_normalized_name, find_duplicates and                *)
(* duplicate_file_finder (src/main.py), DuplicateFinderThread and the      *)
(* MainWindow handlers that drive it (src/ui.py); and, of the other        *)
(* utilities of src/main.py, organize_downloads and ClipboardManager.      *)
(*                                                                         *)
(* A file name is a string, read character by character through Chars;     *)
(* file contents are sequences of bytes; a path is a record [dir, name].   *)
(***************************************************************************)
EXTENDS Integers, Sequences, FiniteSets, TLC

(***************************************************************************)
(* Bounds of the model.                                                    *)
(***************************************************************************)
MaxFiles == 4
MaxWorkers == 3
\* the file opens one digest accessor is followed through
MaxReads == 2
\* the pieces a file name given to get_normalized_name is made of, and the
\* calls made on it and on its results
MaxTokens == 3
MaxCalls == 2
\* the clipboard entries waiting in ClipboardManager.queue
MaxQueue == 3

(***************************************************************************)
(* Characters and strings                                                  *)
(***************************************************************************)
UpperChars == <<"A","B","C","D","E","F","G","H","I","J","K","L","M",
                "N","O","P","Q","R","S","T","U","V","W","X","Y","Z">>
LowerChars == <<"a","b","c","d","e","f","g","h","i","j","k","l","m",
                "n","o","p","q","r","s","t","u","v","w","x","y","z">>

\* str.lower() on one character
LowerChar(c) ==
    IF \E i \in 1..Len(UpperChars) : UpperChars[i] = c
    THEN LowerChars[CHOOSE i \in 1..Len(UpperChars) : UpperChars[i] = c]
    ELSE c

\* str.lower()
Lower(s) == [i \in 1..Len(s) |-> LowerChar(s[i])]

\* the regular-expression class \s
IsSpace(c) == c \in {" ", "\t", "\n", "\r"}

\* the regular-expression class \d
IsDigit(c) == c \in {"0","1","2","3","4","5","6","7","8","9"}

\* s[from:] with a 1-based index
DropTo(s, from) == SubSeq(s, from, Len(s))

\* number of leading whitespace characters of s
LeadingSpaces(s) ==
    IF \A i \in 1..Len(s) : IsSpace(s[i])
    THEN Len(s)
    ELSE (CHOOSE i \in 1..Len(s) :
              ~IsSpace(s[i]) /\ \A j \in 1..(i-1) : IsSpace(s[j])) - 1

\* number of trailing whitespace characters of s
TrailingSpaces(s) ==
    IF \A i \in 1..Len(s) : IsSpace(s[i])
    THEN Len(s)
    ELSE Len(s) - (CHOOSE i \in 1..Len(s) :
              ~IsSpace(s[i]) /\ \A j \in (i+1)..Len(s) : IsSpace(s[j]))

\* str.strip()
Strip(s) ==
    IF \A i \in 1..Len(s) : IsSpace(s[i])
    THEN << >>
    ELSE SubSeq(s, LeadingSpaces(s) + 1, Len(s) - TrailingSpaces(s))

\* os.path.splitext on a name without separators: <<root, ext>>.  The
\* extension starts at the last dot, unless only dots precede that dot.
SplitExt(p) ==
    LET dots == {i \in 1..Len(p) : p[i] = "."}
    IN  IF dots = {}
        THEN <<p, << >> >>
        ELSE LET d == CHOOSE i \in dots : \A j \in dots : j <= i
             IN  IF \E k \in 1..(d-1) : p[k] # "."
                 THEN <<SubSeq(p, 1, d-1), DropTo(p, d)>>
                 ELSE <<p, << >> >>

CopyOf == <<"c","o","p","y"," ","o","f">>

\* re.sub(r'^(copy of\s+)', '', b)
RemoveCopyOfMutant(b) == b
RemoveCopyOf(b) ==
    IF /\ Len(b) > Len(CopyOf)
       /\ SubSeq(b, 1, Len(CopyOf)) = CopyOf
       /\ IsSpace(b[Len(CopyOf) + 1])
    THEN LET rest == DropTo(b, Len(CopyOf) + 1)
         IN  DropTo(rest, LeadingSpaces(rest) + 1)
    ELSE b

RemoveNumSuffixMutant(b) == b
\* re.sub(r'\s*\(\d+\)\s*$', '', b): the match is the last parenthesised
\* run of digits, the whitespace before it and the whitespace up to the end.
RemoveNumSuffix(b) ==
    LET close == Len(b) - TrailingSpaces(b)
        opens == {i \in 1..(close - 2) :
                     /\ b[i] = "("
                     /\ \A j \in (i+1)..(close-1) : IsDigit(b[j])}
    IN  IF close >= 3 /\ b[close] = ")" /\ opens # {}
        THEN LET open == CHOOSE i \in opens : TRUE
                 head == SubSeq(b, 1, open - 1)
             IN  SubSeq(head, 1, Len(head) - TrailingSpaces(head))
        ELSE b

\* get_normalized_name on the characters of a name
NormalizedChars(chars) ==
    LET parts == SplitExt(Lower(chars))
    IN  Strip(RemoveNumSuffix(RemoveCopyOf(parts[1]))) \o parts[2]


\* the pieces of the file names get_normalized_name is applied to
Tokens ==
    { <<"c","o","p","y"," ","o","f"," ">>, <<"C","o","p","y"," ","O","f"," ">>,
      <<" ">>, <<"(","1",")">>, <<"(","1","2",")">>, <<"(",")">>, <<"a">>,
      <<".">>, <<".","T","x","t">> }

\* the names of at most n pieces
RECURSIVE Concats(_)
Concats(n) ==
    IF n = 0 THEN { << >> }
    ELSE LET shorter == Concats(n - 1)
         IN  shorter \cup {p \o t : p \in shorter, t \in Tokens}
Filenames == Concats(MaxTokens) \ { << >> }

(***************************************************************************)
(* The file system under the scanned root                                  *)
(***************************************************************************)
TopDir == "d"
SubDir == "d/sub"
\* the order in which os.walk visits the directories of the tree
DirOrder == <<TopDir, SubDir>>

\* the file names of the model, in the order a directory lists them
NameOrder == <<"b (1).txt", "report.pdf", "copy of report.pdf", "report (1).pdf", "b.txt">>

\* the characters of a file name
Chars(name) ==
    CASE name = "report.pdf" -> <<"r","e","p","o","r","t",".","p","d","f">>
      [] name = "copy of report.pdf" ->
            <<"c","o","p","y"," ","o","f"," ","r","e","p","o","r","t",".","p","d","f">>
      [] name = "report (1).pdf" ->
            <<"r","e","p","o","r","t"," ","(","1",")",".","p","d","f">>
      [] name = "b.txt" -> <<"b",".","t","x","t">>
      [] name = "b (1).txt" -> <<"b"," ","(","1",")",".","t","x","t">>

\* get_normalized_name(filename), tabulated once for the names of the model
NormalizedNames == [n \in {NameOrder[i] : i \in 1..Len(NameOrder)} |-> NormalizedChars(Chars(n))]
get_normalized_name(filename) == NormalizedNames[filename]

Contents == { << >>, <<1, 1>>, <<2, 2>> }

Range(s) == {s[i] : i \in 1..Len(s)}
\* the paths a tree may hold: four names in the root, two in the subdirectory
Paths ==
    [dir : {TopDir}, name : {"report.pdf", "copy of report.pdf", "report (1).pdf", "b.txt"}]
    \cup [dir : {SubDir}, name : {"report.pdf", "copy of report.pdf"}]

\* every tree of at most MaxFiles regular files: path -> content
Trees ==
    UNION { [S -> Contents] : S \in {T \in SUBSET Paths : Cardinality(T) <= MaxFiles} }

\* the trees on which the order of the groups shows: two names of one key
\* listed around the names of another key, in the root and below it
OrderPaths ==
    [dir : {TopDir}, name : {"b (1).txt", "report.pdf", "copy of report.pdf", "b.txt"}]
    \cup [dir : {SubDir}, name : {"report.pdf", "copy of report.pdf"}]
OrderTrees ==
    UNION { [S -> Contents] : S \in {T \in SUBSET OrderPaths : Cardinality(T) <= MaxFiles} }

\* the names os.walk lists for directory root, in listing order
FilesIn(tree, root) ==
    SelectSeq(NameOrder, LAMBDA n : [dir |-> root, name |-> n] \in DOMAIN tree)

(***************************************************************************)
(* Values                                                                  *)
(***************************************************************************)
\* FileInfo.MAX_QUICK_READ_SIZE
MAX_QUICK_READ_SIZE == 1048576

\* Python's None, and a value that is set: a field holds None or Some(v)
None == << >>
Some(v) == <<v>>
\* the '' sentinel a failed digest is cached as
EmptyStr == << >>
\* hashlib.md5(content).hexdigest(): a fixed-length digest, never '', and
\* equal for two contents only if the contents are equal
Md5(content) == <<"md5", content>>

\* defaultdict(list): an insertion-ordered sequence of [key, items]
DictHas(d, k) == \E i \in 1..Len(d) : d[i].key = k
\* d[k].append(v)
DictAddMutant(d, k, v) ==
    IF DictHas(d, k)
    THEN [i \in 1..Len(d) |->
             IF d[i].key = k THEN [d[i] EXCEPT !.items = Append(@, v)] ELSE d[i]]
    ELSE <<[key |-> k, items |-> <<v>>]>> \o d
DictAdd(d, k, v) ==
    IF DictHas(d, k)
    THEN [i \in 1..Len(d) |->
             IF d[i].key = k THEN [d[i] EXCEPT !.items = Append(@, v)] ELSE d[i]]
    ELSE Append(d, [key |-> k, items |-> <<v>>])

\* for i in range(n): d[keys[i]].append(items[i])
RECURSIVE DictOf(_, _, _)
DictOf(items, keys, n) ==
    IF n = 0 THEN << >>
    ELSE DictAdd(DictOf(items, keys, n - 1), keys[n], items[n])

\* list.remove(v): the first occurrence, when there is one
RemoveFirst(s, v) ==
    IF \E i \in 1..Len(s) : s[i] = v
    THEN LET k == CHOOSE i \in 1..Len(s) : s[i] = v /\ \A j \in 1..(i-1) : s[j] # v
         IN  SubSeq(s, 1, k - 1) \o SubSeq(s, k + 1, Len(s))
    ELSE s

(***************************************************************************)
(* FileInfo                                                                *)
(***************************************************************************)
\* FileInfo.__init__
NewFileInfo == [size |-> None, quick_hash |-> None, full_hash |-> None]

\* "if self._size is None:" and the same test of the two digests, negated:
\* the field holds a value, which the accessor returns without file access
CachedMutant(field) == FALSE
Cached(field) == field # None

\* the exceptions a file-system access raises, with their base classes
FsErrors == {"OSError", "PermissionError", "FileNotFoundError"}
Bases(exc) == {exc, "OSError", "Exception"}

\* except (OSError, PermissionError)
CaughtMutant(exc) == "PermissionError" \in Bases(exc)
Caught(exc) == "OSError" \in Bases(exc) \/ "PermissionError" \in Bases(exc)

\* FileInfo.size on a record whose _size is None: os.path.getsize(path),
\* or 0 when it raises OSError (ok: whether the stat call succeeds)
SizeOf(tree, path, ok) ==
    IF ok /\ path \in DOMAIN tree THEN Len(tree[path]) ELSE 0

\* FileInfo.full_hash(): the cached digest, or the digest of the content
\* read now, or '' when open/read raises OSError (ok: whether they succeed)
FullHash(info, tree, path, ok) ==
    IF Cached(info.full_hash) THEN info.full_hash[1]
    ELSE IF ok /\ path \in DOMAIN tree THEN Md5(tree[path]) ELSE EmptyStr

\* the bytes quick_hash reads: at most MAX_QUICK_READ_SIZE, from the start
QuickPrefix(content) ==
    SubSeq(content, 1, IF Len(content) < MAX_QUICK_READ_SIZE
                       THEN Len(content) ELSE MAX_QUICK_READ_SIZE)

\* FileInfo.quick_hash: the cached digest, or the digest of the prefix read
\* now, or '' when open/read raises OSError
QuickHash(info, tree, path, ok) ==
    IF Cached(info.quick_hash) THEN info.quick_hash[1]
    ELSE IF ok /\ path \in DOMAIN tree THEN Md5(QuickPrefix(tree[path])) ELSE EmptyStr

(***************************************************************************)
(* find_duplicates, one directory bucket                                   *)
(***************************************************************************)
\* name_dict of one directory: normalized name -> files
NameDictMutant(files) ==
    DictOf(files, [i \in 1..Len(files) |-> << >>], Len(files))
NameDict(files) ==
    DictOf(files, [i \in 1..Len(files) |-> get_normalized_name(files[i].name)],
           Len(files))

\* hash_dict of one name bucket: digest -> files; hashes maps a path to the
\* value its full_hash() call returned
HashDictMutant(similar_files, hashes) ==
    DictOf(similar_files, [i \in 1..Len(similar_files) |-> EmptyStr],
           Len(similar_files))
HashDict(similar_files, hashes) ==
    DictOf(similar_files, [i \in 1..Len(similar_files) |-> hashes[similar_files[i]]],
           Len(similar_files))

\* the groups one hash_dict contributes
RECURSIVE GroupsOfHashDict(_, _, _, _)
GroupsOfHashDict(hd, n, sizes, directory) ==
    IF n = 0 THEN << >>
    ELSE GroupsOfHashDict(hd, n - 1, sizes, directory) \o
         (IF Len(hd[n].items) > 1
          THEN << [paths |-> hd[n].items,
                   size |-> sizes[hd[n].items[1]],
                   directory |-> directory] >>
          ELSE << >>)

\* the groups the first n name buckets of one directory contribute
RECURSIVE GroupsOfNameDict(_, _, _, _, _)
GroupsOfNameDict(nd, n, hashes, sizes, directory) ==
    IF n = 0 THEN << >>
    ELSE GroupsOfNameDict(nd, n - 1, hashes, sizes, directory) \o
         (IF Len(nd[n].items) > 1
          THEN LET hd == HashDict(nd[n].items, hashes)
               IN  GroupsOfHashDict(hd, Len(hd), sizes, directory)
          ELSE << >>)

(***************************************************************************)
(* MainWindow.display_duplicates, the computed part                        *)
(***************************************************************************)
\* wasted_space = group['size'] * (len(group['paths']) - 1)
WastedSpaceMutant(group) == group.size * Len(group.paths)
WastedSpace(group) == group.size * (Len(group.paths) - 1)

\* total_wasted_space after the first n groups of the loop
RECURSIVE TotalWasted(_, _)
TotalWasted(duplicates, n) ==
    IF n = 0 THEN 0
    ELSE TotalWasted(duplicates, n - 1) + WastedSpace(duplicates[n])

\* the table rows of one group: a header row, one row per file with the
\* name, the size and the location split from the path, a separator row
RowsOfGroup(group) ==
    << [kind |-> "header", filename |-> "", location |-> "",
        size |-> group.size, count |-> Len(group.paths)] >>
    \o [i \in 1..Len(group.paths) |->
           [kind |-> "file", filename |-> group.paths[i].name,
            location |-> group.paths[i].dir, size |-> group.size, count |-> 0]]
    \o << [kind |-> "separator", filename |-> "", location |-> "",
           size |-> 0, count |-> 0] >>

RECURSIVE RowsOf(_, _)
RowsOf(duplicates, n) ==
    IF n = 0 THEN << >>
    ELSE RowsOf(duplicates, n - 1) \o RowsOfGroup(duplicates[n])

(***************************************************************************)
(* State                                                                   *)
(***************************************************************************)
Workers == 1..MaxWorkers

VARIABLES
    fs,                 \* the tree under the scanned root: path -> content
    rootExists,         \* os.path.exists(directory)
    \* DuplicateFinderThread objects, by worker
    pc,                 \* where the thread is in run()
    is_running,         \* DuplicateFinderThread._is_running
    terminated,         \* QThread.terminate() was called on the thread
    \* locals of scan_directory / find_duplicates, by worker
    total_files,
    processed_files,
    walk,               \* the os.walk generator of the second pass
    files_by_size,
    files_by_directory,
    finfo,              \* the FileInfo objects: path -> [size, full_hash]
    group_pos,          \* position of find_duplicates in files_by_directory
    duplicate_groups,
    \* MainWindow
    duplicate_thread,   \* self.duplicate_thread (0: the attribute is absent)
    threads,            \* self.threads
    events,             \* signals queued for the main thread
    duplicates_table,
    duplicate_progress,
    duplicates_status,
    find_duplicates_btn,\* self.find_duplicates_btn
    enabled,            \* isEnabled() of the two buttons
    mainpc,             \* "idle", or "wait": inside duplicate_thread.wait(1000)
    sender,             \* self.sender() of the find_duplicates call in progress
    \* records of what happened
    emitted,            \* by worker, the duplicates_found and error_occurred
                        \* signals it emitted, with the number of groups sent
    \* one FileInfo object and the calls made on it
    file_info,          \* its fields: _size, _quick_hash, _full_hash
    reads,              \* how often each digest accessor opened the file
    outcome,            \* the last call: what it returned or raised
    stop_at,            \* by worker, when stop() was called: "none", during
                        \* the "scan", or "late" (on the way out of run())
    log,                \* the logger calls made: <<level, message>>
    \* get_normalized_name applied to a file name, and to its results
    names,              \* the name, and what the calls so far returned
    \* ClipboardManager
    queue,              \* self.queue: the clip hashes waiting
    connection_pool,    \* the number of connections in self.connection_pool
    running,            \* self.running
    process_pc,         \* the process_queue thread: in its "loop", or "dead"
    history,            \* the hashes in the history table
    clip_log,           \* the logger calls of the ClipboardManager
    failures,           \* how many entries could not be stored
    \* organize_downloads
    folder_files,       \* the regular files of folder_path: name -> content
    target_files,       \* the files of its sub-folders: [folder, name] -> content
    todo,               \* the entries folder_path.iterdir() has yet to yield
    items_processed,
    org_pc              \* "idle", in the "loop" over the entries, "done"

workerVars == <<pc, is_running, terminated, total_files, processed_files, walk,
                files_by_size, files_by_directory, finfo, group_pos,
                duplicate_groups>>
scanVars == <<total_files, processed_files, walk, files_by_size,
              files_by_directory, finfo, group_pos, duplicate_groups>>
uiVars == <<duplicate_thread, threads, duplicates_table, duplicate_progress,
            duplicates_status, find_duplicates_btn, enabled, mainpc, sender>>
infoVars == <<file_info, reads, outcome>>
\* the duplicate finder, and the other utilities
finderVars == <<fs, rootExists, workerVars, uiVars, infoVars, events, emitted, stop_at, log>>
clipVars == <<queue, connection_pool, running, process_pc, history, clip_log, failures>>
orgVars == <<folder_files, target_files, todo, items_processed, org_pc>>
toolVars == <<names, clipVars, orgVars>>
vars == <<finderVars, toolVars>>

\* QThread.isRunning()
IsRunning(w) == pc[w] \notin {"new", "finished", "dead"}

\* the worker is in run() before the _is_running test that guards the emit
Scanning(w) == pc[w] \in {"run", "cb0", "count", "walk", "cb50", "group"}

NoWalk == [next |-> 1, root |-> "", files |-> << >>]
NoCall == [call |-> "none", value |-> None, exc |-> "none", raised |-> FALSE]
Ready == [shown |-> FALSE, groups |-> 0, wasted |-> 0]

ProgressEvent(w, v) ==
    [kind |-> "progress_updated", from |-> w, value |-> v, groups |-> << >>]
DuplicatesEvent(w, g) ==
    [kind |-> "duplicates_found", from |-> w, value |-> 0, groups |-> g]
ErrorEvent(w) ==
    [kind |-> "error_occurred", from |-> w, value |-> 0, groups |-> << >>]

\* the record kept of an emitted duplicates_found or error_occurred signal
Terminal(kind, groups) == [kind |-> kind, groups |-> Len(groups)]

InitFinder ==
    /\ pc = [w \in Workers |-> "new"]
    /\ is_running = [w \in Workers |-> FALSE]
    /\ terminated = [w \in Workers |-> FALSE]
    /\ total_files = [w \in Workers |-> 0]
    /\ processed_files = [w \in Workers |-> 0]
    /\ walk = [w \in Workers |-> NoWalk]
    /\ files_by_size = [w \in Workers |-> << >>]
    /\ files_by_directory = [w \in Workers |-> << >>]
    /\ finfo = [w \in Workers |-> << >>]
    /\ group_pos = [w \in Workers |-> 1]
    /\ duplicate_groups = [w \in Workers |-> << >>]
    /\ duplicate_thread = 0
    /\ threads = << >>
    /\ events = << >>
    /\ duplicates_table = << >>
    /\ duplicate_progress = 0
    /\ duplicates_status = Ready
    /\ find_duplicates_btn = "unset"
    /\ enabled = [b \in {"find", "delete"} |-> TRUE]
    /\ mainpc = "idle"
    /\ sender = "none"
    /\ emitted = [w \in Workers |-> << >>]
    /\ stop_at = [w \in Workers |-> "none"]
    /\ log = {}
    /\ file_info = NewFileInfo
    /\ reads = [quick_hash |-> 0, full_hash |-> 0]
    /\ outcome = NoCall

\* ClipboardManager.POOL_SIZE
POOL_SIZE == 5

\* ClipboardManager.__init__, and the two threads started
InitClipboard ==
    /\ queue = << >>
    /\ connection_pool = POOL_SIZE
    /\ running = TRUE
    /\ process_pc = "loop"
    /\ history = {}
    /\ clip_log = {}
    /\ failures = 0

\* organize_downloads is not running, on an empty folder
NoOrganize ==
    /\ folder_files = << >>
    /\ target_files = << >>
    /\ todo = {}
    /\ items_processed = 0
    /\ org_pc = "idle"

\* no utility but the duplicate finder is in use
InitCommon ==
    /\ InitFinder
    /\ names = << >>
    /\ InitClipboard
    /\ NoOrganize

\* a scan of any tree of at most MaxFiles files, or of a missing root
Init ==
    /\ rootExists \in BOOLEAN
    /\ fs \in IF rootExists THEN Trees ELSE { << >> }
    /\ InitCommon

(***************************************************************************)
(* DuplicateFinderThread.run and duplicate_file_finder, step by step       *)
(***************************************************************************)
\* progress_callback raises InterruptedError once _is_running is False
CallbackRaises(w) == ~is_running[w]

\* duplicate_file_finder(args.directory), as main() calls it, is given no
\* progress_callback: "if progress_callback:" is then false
NoCallback == mainpc = "cli"

\* safe_progress_callback(value): the events after the call.  It calls
\* progress_callback inside try/except Exception, and InterruptedError is an
\* Exception, so a raised InterruptedError is logged and goes no further.
EventsAfterCallback(w, value) ==
    IF NoCallback \/ CallbackRaises(w) THEN events
    ELSE Append(events, ProgressEvent(w, value))
LogAfterCallback(w) ==
    IF ~NoCallback /\ CallbackRaises(w)
    THEN {<<"error", "Progress callback error">>} ELSE {}

\* run(): the os.path.exists test, and the handler of the exception it raises
RunStart(w) ==
    /\ pc[w] = "run"
    /\ IF rootExists
       THEN /\ pc' = [pc EXCEPT ![w] = "cb0"]
            /\ UNCHANGED <<events, emitted, log>>
       ELSE /\ pc' = [pc EXCEPT ![w] = "finally"]
            /\ events' = events \o <<ErrorEvent(w), DuplicatesEvent(w, << >>)>>
            /\ emitted' = [emitted EXCEPT ![w] =
                               @ \o <<Terminal("error_occurred", << >>),
                                      Terminal("duplicates_found", << >>)>>]
            /\ log' = log \cup {<<"error", "Duplicate Finder Error">>}
    /\ UNCHANGED <<fs, rootExists, toolVars, infoVars, is_running, terminated, scanVars, uiVars, stop_at>>

\* duplicate_file_finder: logger.info, safe_progress_callback(0)
InitialProgress(w) ==
    /\ pc[w] = "cb0"
    /\ events' = EventsAfterCallback(w, 0)
    /\ log' = log \cup {<<"info", "Starting duplicate file scan">>} \cup LogAfterCallback(w)
    /\ pc' = [pc EXCEPT ![w] = "count"]
    /\ UNCHANGED <<fs, rootExists, toolVars, infoVars, is_running, terminated, scanVars, uiVars, emitted, stop_at>>

\* sum(len(files) for _, _, files in os.walk(directory))
CountFiles(tree) == Cardinality(DOMAIN tree)

\* where the count pass leads: with no file scan_directory returns the empty
\* indexes and duplicate_file_finder goes on to safe_progress_callback(50)
\* and find_duplicates; otherwise the walk starts
AfterCountMutant(total) == IF total = 0 THEN "finished" ELSE "walk"
AfterCount(total) == IF total = 0 THEN "cb50" ELSE "walk"

\* scan_directory: the count pass and the return on total_files == 0
CountPass(w) ==
    /\ pc[w] = "count"
    /\ total_files' = [total_files EXCEPT ![w] = CountFiles(fs)]
    /\ processed_files' = [processed_files EXCEPT ![w] = 0]
    /\ files_by_size' = [files_by_size EXCEPT ![w] = << >>]
    /\ files_by_directory' = [files_by_directory EXCEPT ![w] = << >>]
    /\ walk' = [walk EXCEPT ![w] = NoWalk]
    /\ pc' = [pc EXCEPT ![w] = AfterCount(CountFiles(fs))]
    /\ log' = IF CountFiles(fs) = 0
              THEN log \cup {<<"warning", "No files found in directory">>}
              ELSE log
    /\ UNCHANGED <<fs, rootExists, toolVars, infoVars, is_running, terminated, finfo, group_pos,
                   duplicate_groups, uiVars, events, emitted, stop_at>>

\* scan_directory: os.walk yields the next directory, or the walk ends and
\* scan_directory returns
WalkDir(w) ==
    /\ pc[w] = "walk"
    /\ walk[w].files = << >>
    /\ IF walk[w].next > Len(DirOrder)
       THEN /\ pc' = [pc EXCEPT ![w] = "cb50"]
            /\ UNCHANGED walk
       ELSE /\ walk' = [walk EXCEPT ![w] =
                           [next |-> @.next + 1,
                            root |-> DirOrder[@.next],
                            files |-> FilesIn(fs, DirOrder[@.next])]]
            /\ UNCHANGED pc
    /\ UNCHANGED <<fs, rootExists, toolVars, infoVars, is_running, terminated, total_files,
                   processed_files, files_by_size, files_by_directory, finfo,
                   group_pos, duplicate_groups, uiVars, events, emitted, stop_at, log>>

\* chunk_size = max(1, total_files // 100)
ChunkSize(total) == IF total \div 100 > 1 THEN total \div 100 ELSE 1

\* int((processed_files / total_files) * 50); the float product truncates to
\* this quotient for every total below 25 (it first differs at 29 of 25)
Phase1Progress(processed, total) == (processed * 50) \div total

\* files_by_directory[root].append(file_info)
IndexByDirectoryMutant(fbd, root, path) == DictAdd(fbd, TopDir, path)
IndexByDirectory(fbd, root, path) == DictAdd(fbd, root, path)

\* if file_info.size > 0: (a file of size 0, empty or with a failed stat
\* call, enters neither index)
IndexedMutant(size) == TRUE
Indexed(size) == size > 0

\* the names of the current directory still to visit after one name was
\* handled: the for loop goes on to the next name also when the stat call
\* failed (FileInfo.size catches the OSError)
RestAfterMutant(files, ok) == IF ok THEN Tail(files) ELSE << >>
RestAfter(files, ok) == Tail(files)

\* scan_directory: the loop body for one name of the current directory
WalkFile(w) ==
    /\ pc[w] = "walk"
    /\ walk[w].files # << >>
    /\ \E ok \in BOOLEAN :
         LET path == [dir |-> walk[w].root, name |-> Head(walk[w].files)]
             size == SizeOf(fs, path, ok)
             done == processed_files[w] + 1
             report == done % ChunkSize(total_files[w]) = 0
         IN  /\ (path \notin DOMAIN fs) => ok
             /\ finfo' = [finfo EXCEPT ![w] =
                    [q \in DOMAIN @ \cup {path} |->
                        IF q = path THEN [NewFileInfo EXCEPT !.size = Some(size)]
                        ELSE @[q]]]
             /\ IF Indexed(size)
                THEN /\ files_by_size' = [files_by_size EXCEPT ![w] = DictAdd(@, size, path)]
                     /\ files_by_directory' = [files_by_directory EXCEPT ![w] =
                                                  IndexByDirectory(@, walk[w].root, path)]
                ELSE UNCHANGED <<files_by_size, files_by_directory>>
             /\ processed_files' = [processed_files EXCEPT ![w] = done]
             /\ events' = IF report
                          THEN EventsAfterCallback(w, Phase1Progress(done, total_files[w]))
                          ELSE events
             /\ log' = log
                    \cup (IF ok /\ path \in DOMAIN fs THEN {}
                          ELSE {<<"error", "Error getting size">>})
                    \cup (IF report THEN LogAfterCallback(w) ELSE {})
             /\ walk' = [walk EXCEPT ![w].files = RestAfter(@, ok /\ path \in DOMAIN fs)]
    /\ UNCHANGED <<fs, rootExists, toolVars, infoVars, pc, is_running, terminated, total_files,
                   group_pos, duplicate_groups, uiVars, emitted, stop_at>>

\* duplicate_file_finder: safe_progress_callback(50), find_duplicates entered
HalfwayProgress(w) ==
    /\ pc[w] = "cb50"
    /\ events' = EventsAfterCallback(w, 50)
    /\ log' = log \cup LogAfterCallback(w)
    /\ group_pos' = [group_pos EXCEPT ![w] = 1]
    /\ duplicate_groups' = [duplicate_groups EXCEPT ![w] = << >>]
    /\ pc' = [pc EXCEPT ![w] = "group"]
    /\ UNCHANGED <<fs, rootExists, toolVars, infoVars, is_running, terminated, total_files,
                   processed_files, walk, files_by_size, files_by_directory,
                   finfo, uiVars, emitted, stop_at>>

\* the cached sizes of a worker's FileInfo objects
SizesOf(info) == [q \in DOMAIN info |-> info[q].size[1]]

\* find_duplicates: the loop body for one entry of files_by_directory.  The
\* files it hashes are read now; failing is the set whose read raises OSError.
GroupDirectory(w) ==
    /\ pc[w] = "group"
    /\ group_pos[w] <= Len(files_by_directory[w])
    /\ LET directory == files_by_directory[w][group_pos[w]].key
           files == files_by_directory[w][group_pos[w]].items
           nd == NameDict(files)
           similar == UNION { Range(nd[i].items) :
                                  i \in {j \in 1..Len(nd) : Len(nd[j].items) > 1} }
           toRead == {q \in similar : finfo[w][q].full_hash = None}
       IN  \E failing \in SUBSET toRead :
             LET hashes == [q \in similar |->
                               FullHash(finfo[w][q], fs, q, q \notin failing)]
             IN  /\ \A q \in failing : q \in DOMAIN fs
                 /\ finfo' = [finfo EXCEPT ![w] =
                        [q \in DOMAIN @ |->
                            IF q \in similar
                            THEN [@[q] EXCEPT !.full_hash = Some(hashes[q])]
                            ELSE @[q]]]
                 /\ duplicate_groups' = [duplicate_groups EXCEPT ![w] =
                        @ \o GroupsOfNameDict(nd, Len(nd), hashes, SizesOf(finfo[w]),
                                              directory)]
                 /\ log' = log \cup
                        (IF \E q \in toRead : q \in failing \/ q \notin DOMAIN fs
                         THEN {<<"error", "Error full hashing">>} ELSE {})
    /\ group_pos' = [group_pos EXCEPT ![w] = @ + 1]
    /\ UNCHANGED <<fs, rootExists, toolVars, infoVars, pc, is_running, terminated, total_files,
                   processed_files, walk, files_by_size, files_by_directory,
                   uiVars, events, emitted, stop_at>>

\* if self._is_running: (before duplicates_found.emit(duplicates))
ShouldEmitMutant(w) == is_running[w] /\ duplicate_groups[w] # << >>
ShouldEmit(w) == is_running[w]

\* find_duplicates and duplicate_file_finder return; run() tests _is_running
ReturnDuplicates(w) ==
    /\ pc[w] = "group"
    /\ ~NoCallback
    /\ group_pos[w] > Len(files_by_directory[w])
    /\ log' = log \cup {<<"info", "Found duplicate groups">>}
    /\ pc' = [pc EXCEPT ![w] = IF ShouldEmit(w) THEN "emit" ELSE "finally"]
    /\ UNCHANGED <<fs, rootExists, toolVars, infoVars, is_running, terminated, scanVars, uiVars,
                   events, emitted, stop_at>>

\* self.duplicates_found.emit(duplicates)
EmitDuplicates(w) ==
    /\ pc[w] = "emit"
    /\ events' = Append(events, DuplicatesEvent(w, duplicate_groups[w]))
    /\ emitted' = [emitted EXCEPT ![w] =
                       Append(@, Terminal("duplicates_found", duplicate_groups[w]))]
    /\ pc' = [pc EXCEPT ![w] = "finally"]
    /\ UNCHANGED <<fs, rootExists, toolVars, infoVars, is_running, terminated, scanVars, uiVars,
                   stop_at, log>>

\* the locals of duplicate_file_finder go with the thread's stack
DropLocals(w) ==
    /\ total_files' = [total_files EXCEPT ![w] = 0]
    /\ processed_files' = [processed_files EXCEPT ![w] = 0]
    /\ walk' = [walk EXCEPT ![w] = NoWalk]
    /\ files_by_size' = [files_by_size EXCEPT ![w] = << >>]
    /\ files_by_directory' = [files_by_directory EXCEPT ![w] = << >>]
    /\ finfo' = [finfo EXCEPT ![w] = << >>]
    /\ group_pos' = [group_pos EXCEPT ![w] = 1]
    /\ duplicate_groups' = [duplicate_groups EXCEPT ![w] = << >>]

\* finally: self._is_running = False; run() returns
Finally(w) ==
    /\ pc[w] = "finally"
    /\ is_running' = [is_running EXCEPT ![w] = FALSE]
    /\ pc' = [pc EXCEPT ![w] = "finished"]
    /\ DropLocals(w)
    /\ UNCHANGED <<fs, rootExists, toolVars, infoVars, terminated, uiVars, events,
                   emitted, stop_at, log>>

\* a thread on which terminate() was called stops at a point the operating
\* system chooses: at once, or after further steps of run()
Die(w) ==
    /\ terminated[w]
    /\ IsRunning(w)
    /\ pc' = [pc EXCEPT ![w] = "dead"]
    /\ DropLocals(w)
    /\ UNCHANGED <<fs, rootExists, toolVars, infoVars, is_running, terminated, uiVars,
                   events, emitted, stop_at, log>>

WorkerStep(w) ==
    \/ RunStart(w)
    \/ InitialProgress(w)
    \/ CountPass(w)
    \/ WalkDir(w)
    \/ WalkFile(w)
    \/ HalfwayProgress(w)
    \/ GroupDirectory(w)
    \/ ReturnDuplicates(w)
    \/ EmitDuplicates(w)
    \/ Finally(w)

(***************************************************************************)
(* MainWindow                                                              *)
(***************************************************************************)
\* the worker object the next DuplicateFinderThread(directory) creates
NewWorker == CHOOSE w \in Workers : pc[w] = "new" /\ \A v \in Workers : pc[v] = "new" => w <= v

\* find_duplicates from "Reset UI state" on: the table and the bar are
\* reset, the sending button is disabled, a new thread is created, tracked
\* and started.  pcNow, runNow and threadsNow are pc, is_running and
\* self.threads as the clean-up of the prior thread left them.
StartScanMutant(btn, pcNow, runNow, threadsNow, logNow) ==
    /\ duplicates_table' = duplicates_table
    /\ duplicate_progress' = 0
    /\ find_duplicates_btn' = btn
    /\ enabled' = [enabled EXCEPT ![btn] = FALSE]
    /\ duplicate_thread' = NewWorker
    /\ pc' = [pcNow EXCEPT ![NewWorker] = "run"]
    /\ is_running' = [runNow EXCEPT ![NewWorker] = TRUE]
    /\ threads' = Append(threadsNow, NewWorker)
    /\ log' = logNow \cup {<<"info", "Started duplicate scan">>}
    /\ mainpc' = "idle"
    /\ sender' = "none"
    /\ UNCHANGED duplicates_status
StartScan(btn, pcNow, runNow, threadsNow, logNow) ==
    /\ duplicates_table' = << >>
    /\ duplicate_progress' = 0
    /\ find_duplicates_btn' = btn
    /\ enabled' = [enabled EXCEPT ![btn] = FALSE]
    /\ duplicate_thread' = NewWorker
    /\ pc' = [pcNow EXCEPT ![NewWorker] = "run"]
    /\ is_running' = [runNow EXCEPT ![NewWorker] = TRUE]
    /\ threads' = Append(threadsNow, NewWorker)
    /\ log' = logNow \cup {<<"info", "Started duplicate scan">>}
    /\ mainpc' = "idle"
    /\ sender' = "none"
    /\ UNCHANGED duplicates_status

\* find_duplicates up to duplicate_thread.wait(1000) when a prior thread is
\* running (stop() is called and the main thread blocks in wait), and the
\* whole of it otherwise
FindDuplicates(btn, logNow) ==
    /\ mainpc = "idle"
    /\ \E w \in Workers : pc[w] = "new"
    /\ IF duplicate_thread # 0 /\ IsRunning(duplicate_thread)
       THEN /\ is_running' = [is_running EXCEPT ![duplicate_thread] = FALSE]
            /\ stop_at' = [stop_at EXCEPT ![duplicate_thread] =
                               IF Scanning(duplicate_thread) THEN "scan" ELSE "late"]
            /\ mainpc' = "wait"
            /\ sender' = btn
            /\ log' = logNow
            /\ UNCHANGED <<pc, duplicate_thread, threads, duplicates_table,
                           duplicate_progress, duplicates_status,
                           find_duplicates_btn, enabled>>
       ELSE /\ StartScan(btn, pc, is_running, threads, logNow)
            /\ UNCHANGED stop_at
    /\ UNCHANGED <<rootExists, toolVars, infoVars, terminated, scanVars, events, emitted>>

\* DuplicateFinderThread.stop(), called on an existing thread object by any
\* caller at any time: self._is_running = False
StopMutant(w) ==
    /\ pc[w] # "new"
    /\ is_running' = [is_running EXCEPT ![w] = ~@]
    /\ stop_at' = [stop_at EXCEPT ![w] =
                       IF @ # "none" \/ ~IsRunning(w) THEN @
                       ELSE IF Scanning(w) THEN "scan" ELSE "late"]
    /\ UNCHANGED <<fs, rootExists, toolVars, infoVars, pc, terminated, scanVars, uiVars,
                   events, emitted, log>>
Stop(w) ==
    /\ pc[w] # "new"
    /\ is_running' = [is_running EXCEPT ![w] = FALSE]
    /\ stop_at' = [stop_at EXCEPT ![w] =
                       IF @ # "none" \/ ~IsRunning(w) THEN @
                       ELSE IF Scanning(w) THEN "scan" ELSE "late"]
    /\ UNCHANGED <<fs, rootExists, toolVars, infoVars, pc, terminated, scanVars, uiVars,
                   events, emitted, log>>

\* the user clicks "Find Duplicates"
ClickFind ==
    /\ enabled["find"]
    /\ FindDuplicates("find", log)
    /\ UNCHANGED fs

\* find_duplicates after wait(1000) returned, because the thread finished or
\* because the second elapsed: terminate() if it is still running, remove it
\* from self.threads, then the rest of the handler.  terminate() returns
\* without waiting: the thread is gone at once, or is still executing.
AfterWait ==
    /\ mainpc = "wait"
    /\ \E atOnce \in BOOLEAN :
         /\ ~IsRunning(duplicate_thread) => atOnce
         /\ terminated' = [terminated EXCEPT ![duplicate_thread] =
                               @ \/ IsRunning(duplicate_thread)]
         /\ StartScan(sender,
                      IF IsRunning(duplicate_thread) /\ atOnce
                      THEN [pc EXCEPT ![duplicate_thread] = "dead"] ELSE pc,
                      is_running, RemoveFirst(threads, duplicate_thread), log)
         /\ IF IsRunning(duplicate_thread) /\ atOnce
            THEN DropLocals(duplicate_thread)
            ELSE UNCHANGED scanVars
    /\ UNCHANGED <<fs, rootExists, toolVars, infoVars, events, emitted, stop_at>>

\* the paths of the checked file rows, as delete_selected_duplicates
\* rebuilds them: os.path.join(location, filename)
PathOfRow(row) == [dir |-> row.location, name |-> row.filename]
FileRows == {i \in 1..Len(duplicates_table) : duplicates_table[i].kind = "file"}

\* delete_selected_duplicates with some file rows checked and the
\* confirmation answered Yes: os.remove on each path, then find_duplicates()
\* (self.sender() is then the Delete button)
ClickDelete ==
    /\ enabled["delete"]
    /\ \E checked \in SUBSET FileRows :
         LET files_to_delete == {PathOfRow(duplicates_table[i]) : i \in checked}
         IN  /\ checked # {}
             /\ fs' = [q \in DOMAIN fs \ files_to_delete |-> fs[q]]
             /\ FindDuplicates("delete",
                    log \cup {<<"info", "Deleted duplicate file">> :
                                  q \in files_to_delete \cap DOMAIN fs}
                        \cup {<<"error", "Failed to delete">> :
                                  q \in files_to_delete \ DOMAIN fs})

\* update_duplicate_progress(value)
UpdateProgress(e) ==
    /\ duplicate_progress' = e.value
    /\ UNCHANGED <<duplicate_thread, threads, duplicates_table, duplicates_status,
                   enabled, log>>

\* handle_duplicate_error(error_msg): the message box, dismissed at once,
\* then the button re-enabled
HandleDuplicateErrorMutant(e) ==
    UNCHANGED <<duplicate_thread, threads, duplicates_table, duplicate_progress,
                duplicates_status, enabled, log>>
HandleDuplicateError(e) ==
    /\ enabled' = [enabled EXCEPT ![find_duplicates_btn] = TRUE]
    /\ UNCHANGED <<duplicate_thread, threads, duplicates_table, duplicate_progress,
                   duplicates_status, log>>

\* display_duplicates(duplicates)
DisplayDuplicates(e) ==
    /\ enabled' = [enabled EXCEPT ![find_duplicates_btn] = TRUE]
    /\ duplicate_progress' = 100
    /\ duplicates_table' = RowsOf(e.groups, Len(e.groups))
    /\ duplicates_status' = [shown |-> TRUE, groups |-> Len(e.groups),
                             wasted |-> TotalWasted(e.groups, Len(e.groups))]
    /\ IF duplicate_thread # 0 /\ duplicate_thread \in Range(threads)
       THEN /\ threads' = RemoveFirst(threads, duplicate_thread)
            /\ duplicate_thread' = 0
       ELSE UNCHANGED <<threads, duplicate_thread>>
    /\ log' = log \cup {<<"info", "Duplicate scan completed">>}

\* the main thread's event loop delivers the next queued signal to its slot
ProcessEvent ==
    /\ mainpc = "idle"
    /\ events # << >>
    /\ LET e == Head(events)
       IN  CASE e.kind = "progress_updated" -> UpdateProgress(e)
             [] e.kind = "error_occurred" -> HandleDuplicateError(e)
             [] e.kind = "duplicates_found" -> DisplayDuplicates(e)
    /\ events' = Tail(events)
    /\ UNCHANGED <<fs, rootExists, toolVars, infoVars, workerVars, find_duplicates_btn, mainpc, sender,
                   emitted, stop_at>>

(***************************************************************************)
(* main(): the duplicate_file_finder command                               *)
(***************************************************************************)
\* main() calls duplicate_file_finder(args.directory) in the main thread,
\* with no thread, no window and no progress callback
CliMain ==
    /\ mainpc = "idle"
    /\ \A w \in Workers : pc[w] = "new"
    /\ mainpc' = "cli"
    /\ pc' = [pc EXCEPT ![1] = "cb0"]
    /\ UNCHANGED <<fs, rootExists, toolVars, infoVars, is_running, terminated, scanVars,
                   duplicate_thread, threads, duplicates_table, duplicate_progress,
                   duplicates_status, find_duplicates_btn, enabled, sender,
                   events, emitted, stop_at, log>>

\* duplicate_file_finder returns to main(), which prints the groups or
\* "No duplicate files found."
CliPrint ==
    /\ NoCallback
    /\ pc[1] = "group"
    /\ group_pos[1] > Len(files_by_directory[1])
    /\ log' = log \cup {<<"info", "Found duplicate groups">>,
                        <<"print", IF duplicate_groups[1] # << >>
                                   THEN "Duplicate file groups found:"
                                   ELSE "No duplicate files found.">>}
    /\ pc' = [pc EXCEPT ![1] = "finished"]
    /\ UNCHANGED <<fs, rootExists, toolVars, infoVars, is_running, terminated, scanVars, uiVars,
                   events, emitted, stop_at>>

\* the steps of duplicate_file_finder between the call and the return
CliStep ==
    \/ InitialProgress(1)
    \/ CountPass(1)
    \/ WalkDir(1)
    \/ WalkFile(1)
    \/ HalfwayProgress(1)
    \/ GroupDirectory(1)

(***************************************************************************)
(* The file system, changed by another process                             *)
(***************************************************************************)
\* a file is created in the tree between the count pass of scan_directory
\* and the end of its walk
CreateFile ==
    /\ \E w \in Workers : pc[w] = "walk"
    /\ Cardinality(DOMAIN fs) < MaxFiles
    /\ \E path \in Paths \ DOMAIN fs, content \in Contents :
         fs' = [q \in DOMAIN fs \cup {path} |-> IF q = path THEN content ELSE fs[q]]
    /\ UNCHANGED <<rootExists, toolVars, infoVars, workerVars, uiVars, events, emitted, stop_at, log>>

(***************************************************************************)
(* One FileInfo object, its accessors called in any order                  *)
(***************************************************************************)
\* the path of the object, and the states of the file behind it
InfoPath == [dir |-> TopDir, name |-> "b.txt"]
InfoFiles == { << >> } \cup { [q \in {InfoPath} |-> c] : c \in Contents }

\* what the file access of an accessor can raise ("none": it succeeds); an
\* accessor whose field is set accesses nothing
Raisable(field) ==
    IF Cached(file_info[field]) THEN {"none"}
    ELSE IF InfoPath \in DOMAIN fs THEN FsErrors \cup {"none"}
    ELSE {"FileNotFoundError"}

\* the end of an accessor: the exception leaves it, or the value is stored
\* in the field and returned, after logger.error when the access failed
Return(field, exc, value, message) ==
    IF exc # "none" /\ ~Caught(exc)
    THEN /\ outcome' = [call |-> field, value |-> None, exc |-> exc, raised |-> TRUE]
         /\ UNCHANGED <<file_info, log>>
    ELSE /\ file_info' = [file_info EXCEPT ![field] = Some(value)]
         /\ outcome' = [call |-> field, value |-> Some(value), exc |-> exc,
                        raised |-> FALSE]
         /\ log' = IF exc # "none" THEN log \cup {<<"error", message>>} ELSE log

\* file_info.size
CallSize ==
    /\ \E exc \in Raisable("size") :
         Return("size", exc,
                IF Cached(file_info.size) THEN file_info.size[1]
                ELSE SizeOf(fs, InfoPath, exc = "none"),
                "Error getting size")
    /\ UNCHANGED <<fs, rootExists, toolVars, workerVars, uiVars, reads, events, emitted, stop_at>>

\* file_info.quick_hash
CallQuickHash ==
    /\ ~Cached(file_info.quick_hash) => reads.quick_hash < MaxReads
    /\ \E exc \in Raisable("quick_hash") :
         Return("quick_hash", exc, QuickHash(file_info, fs, InfoPath, exc = "none"),
                "Error quick hashing")
    /\ reads' = IF Cached(file_info.quick_hash) THEN reads
                ELSE [reads EXCEPT !.quick_hash = @ + 1]
    /\ UNCHANGED <<fs, rootExists, toolVars, workerVars, uiVars, events, emitted, stop_at>>

\* file_info.full_hash()
CallFullHash ==
    /\ ~Cached(file_info.full_hash) => reads.full_hash < MaxReads
    /\ \E exc \in Raisable("full_hash") :
         Return("full_hash", exc, FullHash(file_info, fs, InfoPath, exc = "none"),
                "Error full hashing")
    /\ reads' = IF Cached(file_info.full_hash) THEN reads
                ELSE [reads EXCEPT !.full_hash = @ + 1]
    /\ UNCHANGED <<fs, rootExists, toolVars, workerVars, uiVars, events, emitted, stop_at>>

\* another process creates, rewrites or removes the file
ChangeFile ==
    /\ fs' \in InfoFiles \ {fs}
    /\ UNCHANGED <<rootExists, toolVars, infoVars, workerVars, uiVars, events, emitted,
                   stop_at, log>>

(***************************************************************************)
(* Specifications                                                          *)
(***************************************************************************)
\* the workers that may step when the main thread, idle, delivers each
\* signal before the worker that sent it goes on
PromptWorkers == IF events = << >> THEN Workers ELSE {}

\* one scan, started by one click, of any tree
Next ==
    \/ (pc[1] = "new" /\ ClickFind)
    \/ \E w \in PromptWorkers : WorkerStep(w)
    \/ ProcessEvent

Spec == Init /\ [][Next]_vars

\* the trees the controller is exercised on: no file, and two copies
PairTree ==
    [q \in {[dir |-> TopDir, name |-> "report.pdf"],
            [dir |-> TopDir, name |-> "copy of report.pdf"]} |-> <<2, 2>>]
InitCtl ==
    /\ rootExists \in BOOLEAN
    /\ fs \in IF rootExists THEN { << >>, PairTree } ELSE { << >> }
    /\ InitCommon

\* any number of scans, restarted and refreshed while one is running
NextCtl ==
    \/ ClickFind
    \/ ClickDelete
    \/ AfterWait
    \/ \E w \in Workers : WorkerStep(w)
    \/ \E w \in Workers : Die(w)
    \/ ProcessEvent

SpecCtl == InitCtl /\ [][NextCtl]_vars

\* one scan, started by one click, of a tree in which files appear meanwhile
LiveTrees == {t \in Trees : Cardinality(DOMAIN t) <= 1}
InitLive ==
    /\ rootExists = TRUE
    /\ fs \in LiveTrees
    /\ InitCommon

NextLive ==
    \/ (pc[1] = "new" /\ ClickFind)
    \/ \E w \in PromptWorkers : WorkerStep(w)
    \/ ProcessEvent
    \/ CreateFile

SpecLive == InitLive /\ [][NextLive]_vars

\* the duplicate_file_finder command of main(), on any tree or a missing root
NextCli ==
    \/ CliMain
    \/ CliStep
    \/ CliPrint

SpecCli == Init /\ [][NextCli]_vars

\* one FileInfo object, its accessors called in any order on a file that
\* changes and whose access fails at times
InitInfo ==
    /\ rootExists = TRUE
    /\ fs \in InfoFiles
    /\ InitCommon

NextInfo ==
    \/ CallSize
    \/ CallQuickHash
    \/ CallFullHash
    \/ ChangeFile

SpecInfo == InitInfo /\ [][NextInfo]_vars

\* the same command on the trees with several keys in one directory
InitOrder ==
    /\ rootExists = TRUE
    /\ fs \in OrderTrees
    /\ InitCommon

SpecOrder == InitOrder /\ [][NextCli]_vars

\* get_normalized_name called on a file name, then on what it returned
Normalize ==
    /\ names # << >>
    /\ Len(names) <= MaxCalls
    /\ names' = Append(names, NormalizedChars(names[Len(names)]))
    /\ UNCHANGED <<finderVars, clipVars, orgVars>>

InitNames ==
    /\ rootExists = TRUE
    /\ fs = << >>
    /\ InitFinder
    /\ names \in {<<x>> : x \in Filenames}
    /\ InitClipboard
    /\ NoOrganize

SpecNames == InitNames /\ [][Normalize]_vars

(***************************************************************************)
(* ClipboardManager                                                        *)
(***************************************************************************)
\* the clipboard contents, by their md5 hash
Clips == {1, 2, 3}

\* monitor_clipboard: a new clipboard content is queued
Put ==
    /\ running
    /\ Len(queue) < MaxQueue
    /\ \E clip_hash \in Clips : queue' = Append(queue, clip_hash)
    /\ UNCHANGED <<finderVars, names, orgVars, connection_pool, running, process_pc,
                   history, clip_log, failures>>

\* "from queue import Queue": the class queue.Queue has no attribute Empty
\* (the exception is queue.Empty, of the module)
QueueHasEmpty == FALSE

\* an exception raised in the try block of process_queue reaches its except
\* clauses, which are tried in order: evaluating Queue.Empty raises
\* AttributeError before any clause has matched
Handle(exc) ==
    IF ~QueueHasEmpty
    THEN [raises |-> "AttributeError", logs |-> {}]
    ELSE IF exc = "Empty"
    THEN [raises |-> "none", logs |-> {}]
    ELSE IF exc = "sqlite3.Error"
    THEN [raises |-> "none",
          logs |-> {<<"error", "Database error while processing clipboard">>}]
    ELSE [raises |-> "none", logs |-> {<<"error", "Error processing clipboard data">>}]

\* process_queue: one pass of the loop with an entry in the queue.  The
\* entry is taken, a connection is taken from the pool, the entry is stored
\* unless its hash is there already, and the connection is put back by the
\* finally clause; exc is what the database calls raise
ProcessEntry ==
    /\ process_pc = "loop"
    /\ running
    /\ queue # << >>
    /\ connection_pool > 0
    /\ queue' = Tail(queue)
    /\ connection_pool' = (connection_pool - 1) + 1
    /\ \E exc \in {"none", "sqlite3.Error", "Exception"} :
         IF exc = "none"
         THEN /\ history' = history \cup {Head(queue)}
              /\ clip_log' = clip_log \cup
                     (IF Head(queue) \in history THEN {}
                      ELSE {<<"info", "New clipboard entry saved">>})
              /\ UNCHANGED <<process_pc, failures>>
         ELSE /\ failures' = failures + 1
              /\ clip_log' = clip_log \cup Handle(exc).logs
              /\ process_pc' = IF Handle(exc).raises = "none" THEN "loop" ELSE "dead"
              /\ UNCHANGED history
    /\ UNCHANGED <<finderVars, names, orgVars, running>>

\* cleanup: running is cleared, the queue is emptied, the connections of
\* the pool are closed
Cleanup ==
    /\ running
    /\ running' = FALSE
    /\ queue' = << >>
    /\ connection_pool' = 0
    /\ UNCHANGED <<finderVars, names, orgVars, process_pc, history, clip_log, failures>>

InitClip ==
    /\ rootExists = TRUE
    /\ fs = << >>
    /\ InitFinder
    /\ names = << >>
    /\ InitClipboard
    /\ NoOrganize

NextClip ==
    \/ Put
    \/ ProcessEntry
    \/ Cleanup

SpecClip == InitClip /\ [][NextClip]_vars

\* scans started one after the other by the Find button, also while the
\* signals of the scan before are still queued
NextRetry ==
    \/ ClickFind
    \/ AfterWait
    \/ \E w \in Workers : WorkerStep(w)
    \/ \E w \in Workers : Die(w)
    \/ ProcessEvent

SpecRetry == InitCtl /\ [][NextRetry]_vars

\* two scans at most, with stop() called on the thread objects at any time
NextStop ==
    \/ (pc[2] = "new" /\ ClickFind)
    \/ AfterWait
    \/ \E w \in Workers : WorkerStep(w)
    \/ \E w \in Workers : Die(w)
    \/ \E w \in Workers : Stop(w)
    \/ ProcessEvent

SpecStop == InitCtl /\ [][NextStop]_vars

(***************************************************************************)
(* organize_downloads                                                      *)
(***************************************************************************)
\* PurePath.suffix and PurePath.stem of a file name: the suffix starts at
\* the last dot, unless that dot is the first or the last character
LastDot(n) ==
    IF \E i \in 1..Len(n) : n[i] = "."
    THEN CHOOSE i \in 1..Len(n) : n[i] = "." /\ \A j \in (i+1)..Len(n) : n[j] # "."
    ELSE 0
PathSuffix(n) == IF 1 < LastDot(n) /\ LastDot(n) < Len(n) THEN DropTo(n, LastDot(n)) ELSE << >>
PathStem(n) == IF 1 < LastDot(n) /\ LastDot(n) < Len(n) THEN SubSeq(n, 1, LastDot(n) - 1) ELSE n

\* str(counter), for a counter below 100
DigitChars == <<"0","1","2","3","4","5","6","7","8","9">>
Str(k) ==
    IF k < 10 THEN <<DigitChars[k + 1]>>
    ELSE <<DigitChars[(k \div 10) + 1], DigitChars[(k % 10) + 1]>>

\* f"{item.stem}_{counter}{item.suffix}"
Numbered(item, counter) == PathStem(item) \o <<"_">> \o Str(counter) \o PathSuffix(item)

\* folder_mappings, in the order of the dictionary: folder -> extensions
Dot == <<".">>
FolderMappings ==
    << [folder |-> "Documents", extensions |-> {Dot \o <<"t","x","t">>}],
       [folder |-> "Text", extensions |-> {Dot \o <<"t","x","t">>, Dot \o <<"m","d">>}] >>

\* the folder of the first mapping that lists the item's suffix in lower
\* case, "Others" when there is none
TargetFolder(item) ==
    LET hits == {i \in 1..Len(FolderMappings) :
                    Lower(PathSuffix(item)) \in FolderMappings[i].extensions}
    IN  IF hits = {} THEN "Others"
        ELSE FolderMappings[CHOOSE i \in hits : \A j \in hits : i <= j].folder

\* the names in a sub-folder
NamesIn(files, target_folder) ==
    {q.name : q \in {r \in DOMAIN files : r.folder = target_folder}}

\* the while loop: the first numbered name, from counter on, that does not
\* exist in the target folder
RECURSIVE FirstFree(_, _, _)
FirstFree(item, counter, existing) ==
    IF Numbered(item, counter) \in existing
    THEN FirstFree(item, counter + 1, existing)
    ELSE Numbered(item, counter)

\* target_path.name: the item's name, or the numbered name when the target
\* folder has a file of that name
TargetNameMutant(item, existing) == item
TargetName(item, existing) ==
    IF item \in existing THEN FirstFree(item, 1, existing) ELSE item

\* organize_downloads up to the loop: the folder exists and is accessible
OrganizeDownloads ==
    /\ org_pc = "idle"
    /\ org_pc' = "loop"
    /\ todo' = DOMAIN folder_files
    /\ items_processed' = 0
    /\ UNCHANGED <<finderVars, names, clipVars, folder_files, target_files>>

\* one pass of the loop, for a file of the folder: shutil.move renames it
\* to target_path, replacing a file that is there, unless mkdir or the move
\* raises PermissionError or OSError, which is logged
OrganizeItem ==
    /\ org_pc = "loop"
    /\ \E item \in todo, raised \in BOOLEAN :
         LET target_folder == TargetFolder(item)
             target_path == [folder |-> target_folder,
                             name |-> TargetName(item, NamesIn(target_files, target_folder))]
         IN  /\ todo' = todo \ {item}
             /\ IF raised
                THEN UNCHANGED <<folder_files, target_files, items_processed>>
                ELSE /\ target_files' =
                            [q \in DOMAIN target_files \cup {target_path} |->
                                IF q = target_path THEN folder_files[item]
                                ELSE target_files[q]]
                     /\ folder_files' = [n \in DOMAIN folder_files \ {item} |->
                                            folder_files[n]]
                     /\ items_processed' = items_processed + 1
    /\ UNCHANGED <<finderVars, names, clipVars, org_pc>>

\* the loop ends: "Organization complete."
OrganizeDone ==
    /\ org_pc = "loop"
    /\ todo = {}
    /\ org_pc' = "done"
    /\ UNCHANGED <<finderVars, names, clipVars, folder_files, target_files, todo,
                   items_processed>>

\* the files of the folder and of its sub-folders before the run; the
\* content of a file tells where it was
DownloadNames ==
    { <<"a">> \o Dot \o <<"t","x","t">>, <<"a","_","1">> \o Dot \o <<"t","x","t">>,
      <<"a">> \o Dot \o <<"T","X","T">>, <<"b">> \o Dot \o <<"d","a","t">>, <<"b">> }
OldTargets ==
    [folder : {"Documents"},
     name : { <<"a">> \o Dot \o <<"t","x","t">>, <<"a","_","1">> \o Dot \o <<"t","x","t">>,
              <<"a","_","2">> \o Dot \o <<"t","x","t">> }]
    \cup [folder : {"Others"}, name : { <<"b">>, <<"b","_","1">> }]

InitOrg ==
    /\ rootExists = TRUE
    /\ fs = << >>
    /\ InitFinder
    /\ names = << >>
    /\ InitClipboard
    /\ \E D \in SUBSET DownloadNames : folder_files = [n \in D |-> <<"downloaded", n>>]
    /\ \E T \in SUBSET OldTargets : target_files = [q \in T |-> <<"old", q>>]
    /\ todo = {}
    /\ items_processed = 0
    /\ org_pc = "idle"

NextOrg ==
    \/ OrganizeDownloads
    \/ OrganizeItem
    \/ OrganizeDone

SpecOrg == InitOrg /\ [][NextOrg]_vars

(***************************************************************************)
(* Properties of one scan (Spec)                                           *)
(***************************************************************************)
\* the groups find_duplicates has built so far, over all workers
AllGroups == UNION { {<<w, duplicate_groups[w][i]>> : i \in 1..Len(duplicate_groups[w])} : w \in Workers }

\* find_duplicates has processed every directory of worker w's catalog
GroupingDone(w) == pc[w] \in {"emit", "finally"}

\* C1: in every group find_duplicates returns, all member files have the
\* same get_normalized_name key, the same full_hash() value and the same
\* parent directory, which is the group's 'directory' field.
C1_GroupMembersAgree ==
    \A wg \in AllGroups :
        LET w == wg[1]
            g == wg[2]
        IN  \A i, j \in 1..Len(g.paths) :
              /\ get_normalized_name(g.paths[i].name) = get_normalized_name(g.paths[j].name)
              /\ finfo[w][g.paths[i]].full_hash # None
              /\ finfo[w][g.paths[i]].full_hash = finfo[w][g.paths[j]].full_hash
              /\ g.paths[i].dir = g.paths[j].dir
              /\ g.paths[i].dir = g.directory

\* a scan that found a group in each of the two directories
C1_Witness ==
    \E w \in Workers :
        /\ GroupingDone(w)
        /\ {duplicate_groups[w][i].directory : i \in 1..Len(duplicate_groups[w])}
               = {TopDir, SubDir}

\* C2: every group has at least two member paths and any two members of a
\* group have identical content, also when reading a member failed.
C2_GroupMembersIdentical ==
    \A wg \in AllGroups :
        LET g == wg[2]
        IN  /\ Len(g.paths) >= 2
            /\ \A i, j \in 1..Len(g.paths) : fs[g.paths[i]] = fs[g.paths[j]]

\* C3: two files with identical content that lie in two different
\* directories of the tree are never members of the same group.
C3_NoCrossDirectoryGroup ==
    \A p, q \in DOMAIN fs :
        (p.dir # q.dir /\ fs[p] = fs[q]) =>
            \A wg \in AllGroups : ~({p, q} \subseteq Range(wg[2].paths))

\* the root and the subdirectory each hold a copy of the same content under
\* the same name, both are in the catalog, and grouping has finished
C3_Witness ==
    \E w \in Workers :
        /\ GroupingDone(w)
        /\ \E p, q \in DOMAIN finfo[w] :
              /\ p.dir = TopDir /\ q.dir = SubDir /\ p.name = q.name
              /\ p \in DOMAIN fs /\ q \in DOMAIN fs /\ fs[p] = fs[q]
              /\ finfo[w][p].size[1] > 0 /\ finfo[w][q].size[1] > 0
        /\ duplicate_groups[w] # << >>

\* worker w saw directory d hold exactly the two files p and q, both
\* non-empty and both read without error
TwoReadableFiles(w, d, p, q) ==
    /\ p # q
    /\ {r \in DOMAIN fs : r.dir = d} = {p, q}
    /\ \A r \in {p, q} :
          /\ r \in DOMAIN finfo[w]
          /\ finfo[w][r].size = Some(Len(fs[r]))
          /\ Len(fs[r]) > 0
          /\ finfo[w][r].full_hash # Some(EmptyStr)

GroupsIn(w, d) == {i \in 1..Len(duplicate_groups[w]) : duplicate_groups[w][i].directory = d}

\* C4: a directory holding exactly two non-empty readable files with the
\* same normalized name and different content yields no group.
C4_DifferentContentNoGroup ==
    \A w \in Workers : GroupingDone(w) =>
        \A p, q \in DOMAIN fs :
            ( /\ TwoReadableFiles(w, p.dir, p, q)
              /\ get_normalized_name(p.name) = get_normalized_name(q.name)
              /\ fs[p] # fs[q] )
            => GroupsIn(w, p.dir) = {}

C4_Witness ==
    \E w \in Workers :
        /\ GroupingDone(w)
        /\ \E p, q \in DOMAIN fs :
              /\ TwoReadableFiles(w, p.dir, p, q)
              /\ get_normalized_name(p.name) = get_normalized_name(q.name)
              /\ fs[p] # fs[q]
              /\ finfo[w][p].full_hash # None
              /\ finfo[w][q].full_hash # None

\* C5: report.pdf, copy of report.pdf and report (1).pdf normalize to one
\* key, and a directory holding two non-empty readable files of identical
\* content named report.pdf and copy of report.pdf, or report.pdf and
\* report (1).pdf, yields exactly one group, of size 2, with both paths.
C5_CopiesFormOneGroup ==
    /\ get_normalized_name("copy of report.pdf") = get_normalized_name("report.pdf")
    /\ get_normalized_name("report (1).pdf") = get_normalized_name("report.pdf")
    /\ \A w \in Workers : GroupingDone(w) =>
         \A p, q \in DOMAIN fs :
            ( /\ TwoReadableFiles(w, p.dir, p, q)
              /\ p.name = "report.pdf"
              /\ q.name \in {"copy of report.pdf", "report (1).pdf"}
              /\ fs[p] = fs[q] )
            => /\ Cardinality(GroupsIn(w, p.dir)) = 1
               /\ \A i \in GroupsIn(w, p.dir) :
                     /\ Len(duplicate_groups[w][i].paths) = 2
                     /\ Range(duplicate_groups[w][i].paths) = {p, q}

\* both pairs of names, one in each directory of a scanned tree
C5_Witness ==
    \E w \in Workers :
        /\ GroupingDone(w)
        /\ \E p, q \in DOMAIN fs :
              /\ TwoReadableFiles(w, TopDir, p, q)
              /\ p.name = "report.pdf" /\ q.name = "report (1).pdf" /\ fs[p] = fs[q]
        /\ \E p, q \in DOMAIN fs :
              /\ TwoReadableFiles(w, SubDir, p, q)
              /\ p.name = "report.pdf" /\ q.name = "copy of report.pdf" /\ fs[p] = fs[q]
        /\ Len(duplicate_groups[w]) = 2

\* C6: the scan of a tree without files returns an empty group list, and
\* the wasted-space total computed from it is 0.
C6_EmptyTreeNoGroups ==
    (rootExists /\ DOMAIN fs = {}) =>
        /\ \A w \in Workers : duplicate_groups[w] = << >>
        /\ \A i \in 1..Len(events) :
              events[i].kind = "duplicates_found" => events[i].groups = << >>
        /\ \A w \in Workers :
              (pc[w] = "finished" /\ events = << >>) =>
                  /\ emitted[w] = <<Terminal("duplicates_found", << >>)>>
                  /\ duplicates_status = [shown |-> TRUE, groups |-> 0, wasted |-> 0]
                  /\ duplicates_table = << >>

C6_Witness ==
    /\ rootExists /\ DOMAIN fs = {}
    /\ pc[1] = "finished" /\ events = << >>
    /\ duplicates_status.shown

\* the sum of size * (count - 1) over the header rows of the first n rows
RECURSIVE HeaderWaste(_, _)
HeaderWaste(rows, n) ==
    IF n = 0 THEN 0
    ELSE HeaderWaste(rows, n - 1) +
         (IF rows[n].kind = "header" THEN rows[n].size * (rows[n].count - 1) ELSE 0)

Headers(rows) == {i \in 1..Len(rows) : rows[i].kind = "header"}

\* C7: a reported group of N members of recorded size S wastes S * (N - 1),
\* the total shown is the sum of that over the reported groups, and no
\* reported group has fewer than two members.
C7_WastedSpaceTotal ==
    duplicates_status.shown =>
        /\ duplicates_status.wasted = HeaderWaste(duplicates_table, Len(duplicates_table))
        /\ duplicates_status.groups = Cardinality(Headers(duplicates_table))
        /\ \A i \in Headers(duplicates_table) : duplicates_table[i].count >= 2

\* two groups are shown, so that the total is a sum of two terms
C7_Witness ==
    /\ duplicates_status.shown
    /\ Cardinality(Headers(duplicates_table)) = 2
    /\ duplicates_status.wasted > 0

(***************************************************************************)
(* Properties of the scan controller (SpecCtl)                             *)
(***************************************************************************)
\* C8: when stop() is called on a thread while its scan is running, the
\* scan ends with the cancelled notification, duplicates_found with an empty
\* list, and delivers no duplicates_found with a non-empty list.
C8_StopYieldsCancelled ==
    \A w \in Workers :
        (stop_at[w] = "scan" /\ pc[w] = "finished") =>
            emitted[w] = <<Terminal("duplicates_found", << >>)>>

\* C9: every started scan delivers exactly one terminal notification,
\* never zero and never two, whether it completes, fails or is stopped.
C9_ExactlyOneTerminal ==
    \A w \in Workers : pc[w] = "finished" => Len(emitted[w]) = 1

\* C10: at no time are two scan workers of one MainWindow running at once:
\* the prior worker has stopped executing before the new one is started.
C10_OneWorkerAtATime ==
    \A v, w \in Workers : (Scanning(v) /\ Scanning(w)) => v = w

(***************************************************************************)
(* Properties of the progress values (SpecLive, Spec)                      *)
(***************************************************************************)
\* C11: across one scan, the progress values delivered to the caller (the
\* initial 0, the phase-1 values, the 50 at the phase boundary, any later
\* value) never decrease.  The bar starts the scan at 0 and changes only
\* when a value is delivered.
C11_ProgressNeverDecreases ==
    [][duplicate_progress' >= duplicate_progress]_vars

\* C12: the progress shown reaches 100 only when the scan completed the
\* grouping of all directories; a failed or cancelled scan never drives it
\* to 100.
C12_HundredOnlyOnSuccess ==
    duplicate_progress = 100 =>
        \A w \in Workers : \A i \in 1..Len(emitted[w]) :
            emitted[w][i].kind # "error_occurred"

\* C13: every progress value scan_directory emits lies in 0..50, also when
\* the walk sees another number of files than the count pass counted.
C13_Phase1ProgressInRange ==
    \A i \in 1..Len(events) :
        events[i].kind = "progress_updated" => events[i].value \in 0..50

(***************************************************************************)
(* Properties of the catalog (Spec)                                        *)
(***************************************************************************)
\* the files of worker w's catalog that find_duplicates has to hash: those
\* sharing a directory bucket and a normalized name with another file
Similar(w) ==
    {p \in DOMAIN finfo[w] :
        /\ finfo[w][p].size[1] > 0
        /\ \E q \in DOMAIN finfo[w] \ {p} :
              /\ finfo[w][q].size[1] > 0
              /\ q.dir = p.dir
              /\ get_normalized_name(q.name) = get_normalized_name(p.name)}

\* C14: a per-file error (a failed stat call, a failed read while hashing,
\* a file that is gone) never fails the scan: every file of the tree is
\* still visited, every file to hash gets a digest or the sentinel, and the
\* scan ends with a group list and without an error.
C14_FileErrorsAbsorbed ==
    rootExists =>
        \A w \in Workers :
            /\ \A i \in 1..Len(emitted[w]) : emitted[w][i].kind # "error_occurred"
            /\ pc[w] \in {"cb50", "group", "emit"} =>
                  /\ DOMAIN finfo[w] = DOMAIN fs
                  /\ processed_files[w] = total_files[w]
            /\ pc[w] = "emit" =>
                  \A p \in Similar(w) : finfo[w][p].full_hash # None
            /\ pc[w] = "finished" =>
                  /\ Len(emitted[w]) = 1
                  /\ emitted[w][1].kind = "duplicates_found"

\* a scan that met a failed stat call and a failed read and still found a
\* group
C14_Witness ==
    \E w \in Workers :
        /\ pc[w] = "emit"
        /\ <<"error", "Error getting size">> \in log
        /\ <<"error", "Error full hashing">> \in log
        /\ \E p \in Similar(w) : finfo[w][p].full_hash = Some(EmptyStr)
        /\ \E i \in 1..Len(duplicate_groups[w]) :
              \A j \in 1..Len(duplicate_groups[w][i].paths) :
                  finfo[w][duplicate_groups[w][i].paths[j]].full_hash # Some(EmptyStr)

\* where path occurs in an index: <<bucket, position>>
Occurrences(d, path) ==
    {ik \in (1..Len(d)) \X (1..MaxFiles + 1) :
        ik[2] <= Len(d[ik[1]].items) /\ d[ik[1]].items[ik[2]] = path}

\* C17: after scan_directory returns, every visited file of size > 0 is in
\* exactly one files_by_directory bucket, the one of its parent directory,
\* and in exactly one files_by_size bucket, the one of its size; no file of
\* size 0 (empty or unreadable) is in either index.
C17_IndexesPartitionFiles ==
    \A w \in Workers : pc[w] \in {"cb50", "group", "emit"} =>
        \A p \in DOMAIN finfo[w] :
            LET size == finfo[w][p].size[1]
                byDir == Occurrences(files_by_directory[w], p)
                bySize == Occurrences(files_by_size[w], p)
            IN  IF size > 0
                THEN /\ Cardinality(byDir) = 1
                     /\ \A ik \in byDir : files_by_directory[w][ik[1]].key = p.dir
                     /\ Cardinality(bySize) = 1
                     /\ \A ik \in bySize : files_by_size[w][ik[1]].key = size
                ELSE byDir = {} /\ bySize = {}

\* scan_directory returned a catalog with files of both directories, after
\* visiting an empty file and a file whose stat call failed
C17_Witness ==
    \E w \in Workers :
        /\ pc[w] = "cb50"
        /\ Len(files_by_directory[w]) = 2
        /\ \E p \in DOMAIN finfo[w] : fs[p] = << >>
        /\ \E p \in DOMAIN finfo[w] : fs[p] # << >> /\ finfo[w][p].size = Some(0)

(***************************************************************************)
(* Properties of the validation of the root (SpecCli, Spec)                *)
(***************************************************************************)
\* C15: a scan whose root directory does not exist fails with an error
\* before any directory walk and before any catalog entry is built, from
\* every entry point; here, duplicate_file_finder called by main().
C15_MissingRootFailsFirst ==
    ~rootExists =>
        \A w \in Workers :
            /\ pc[w] \notin {"walk", "cb50", "group", "emit"}
            /\ pc[w] = "finished" => \E e \in log : e[1] = "error"

\* C16: starting a scan validates the existence and the read/write access
\* of the root before the worker is started; when the validation fails, no
\* worker ever runs for the request.
C16_NoWorkerForInvalidRoot ==
    ~rootExists => \A w \in Workers : pc[w] = "new"

(***************************************************************************)
(* Properties of one FileInfo object (SpecInfo)                            *)
(***************************************************************************)
Digests == {"quick_hash", "full_hash"}

\* C18: over the lifetime of a FileInfo, each digest accessor opens the
\* file at most once, whatever calls are made: a digest that was computed,
\* and the '' sentinel of a failed read, are returned from the field
\* afterwards, and a failed read is not retried when the file is readable.
C18_DigestsReadOnce ==
    /\ \A f \in Digests :
          /\ reads[f] <= 1
          /\ reads[f] = 0 => file_info[f] = None
    /\ (outcome.call \in Digests /\ ~outcome.raised) =>
          /\ outcome.value = file_info[outcome.call]
          /\ outcome.value # None

\* the read of full_hash failed once, the file is there with content, and
\* a later call returned the sentinel without access; the quick digest was
\* computed once and returned again after the file was removed
C18_Witness ==
    /\ reads = [quick_hash |-> 1, full_hash |-> 1]
    /\ file_info.full_hash = Some(EmptyStr)
    /\ file_info.quick_hash \notin {None, Some(EmptyStr)}
    /\ InfoPath \in DOMAIN fs /\ fs[InfoPath] # << >>
    /\ outcome = [call |-> "full_hash", value |-> Some(EmptyStr), exc |-> "none",
                  raised |-> FALSE]
    /\ <<"error", "Error full hashing">> \in log

\* the logger.error message of each accessor
ErrorMessage(call) ==
    CASE call = "size" -> "Error getting size"
      [] call = "quick_hash" -> "Error quick hashing"
      [] call = "full_hash" -> "Error full hashing"

\* C19: size, quick_hash and full_hash never raise on a file-system access
\* error: size returns 0, the digests return '', and the error is logged.
C19_AccessorsNeverRaise ==
    /\ ~outcome.raised
    /\ outcome.exc # "none" =>
          /\ outcome.value = (IF outcome.call = "size" THEN Some(0) ELSE Some(EmptyStr))
          /\ <<"error", ErrorMessage(outcome.call)>> \in log

\* the three accessors each met an access error, the last one on a file
\* that is gone
C19_Witness ==
    /\ file_info = [size |-> Some(0), quick_hash |-> Some(EmptyStr),
                    full_hash |-> Some(EmptyStr)]
    /\ {<<"error", ErrorMessage(c)>> : c \in {"size", "quick_hash", "full_hash"}}
           \subseteq log
    /\ outcome.exc = "FileNotFoundError"
    /\ ~outcome.raised

(***************************************************************************)
(* Properties of the grouping phase under cancellation (SpecCtl)           *)
(***************************************************************************)
\* C20: in phase 2 the grouping loop observes the cancellation flag at the
\* start of each directory bucket: once stop() was requested on a worker,
\* its find_duplicates begins no further directory.
C20_NoDirectoryAfterStop ==
    [][\A w \in Workers :
          (stop_at[w] = "scan" /\ pc[w] = "group") => group_pos'[w] <= group_pos[w]]_vars

(***************************************************************************)
(* Properties of the controller after a failure (SpecRetry)                *)
(***************************************************************************)
\* the main thread handles the error_occurred signal of a worker
HandlesError ==
    /\ events # << >>
    /\ Head(events).kind = "error_occurred"
    /\ events' = Tail(events)

\* C21: when a scan ends in failure, the failure is reported to the caller
\* (error_occurred is emitted and logged), and handling it leaves the
\* controller able to start a scan: the start control is enabled, and a
\* find_duplicates call then starts a new worker.
C21_RestartAfterFailure ==
    [][/\ \A w \in Workers :
             (pc[w] = "run" /\ pc'[w] = "finally") =>
                 /\ \E i \in 1..Len(events') : events'[i] = ErrorEvent(w)
                 /\ <<"error", "Duplicate Finder Error">> \in log'
       /\ HandlesError =>
             /\ enabled'["find"]
             /\ mainpc' = "idle"
       /\ (enabled["find"] /\ mainpc = "idle" /\ pc[MaxWorkers] = "new"
             /\ duplicate_thread' # duplicate_thread /\ duplicate_thread' # 0) =>
             /\ pc[duplicate_thread'] = "new"
             /\ pc'[duplicate_thread'] = "run"]_vars

\* a scan failed, its error was handled, and the scan started by the next
\* click is running
C21_Witness ==
    /\ Len(emitted[1]) > 0 /\ emitted[1][1].kind = "error_occurred"
    /\ \A i \in 1..Len(events) : events[i].kind # "error_occurred"
    /\ pc[1] = "finished"
    /\ pc[2] = "run"
    /\ duplicate_thread = 2

(***************************************************************************)
(* Properties of duplicate_file_finder called by main() (SpecCli)          *)
(***************************************************************************)
Phase1 == {"cb0", "count", "walk", "cb50"}

\* C22: the phases of a scan occur in order: before the walk of phase 1 has
\* finished no full digest is computed and no grouping step has run; phase
\* 2 follows phase 1 by itself, also when the catalog is empty; and a scan
\* in phase 2 never returns to phase 1.
C22_PhasesInOrder ==
    [][\A w \in Workers :
          /\ pc'[w] \in Phase1 =>
                /\ \A p \in DOMAIN finfo'[w] : finfo'[w][p].full_hash = None
                /\ duplicate_groups'[w] = << >>
                /\ group_pos'[w] = 1
          /\ (pc[w] \in {"count", "walk"} /\ pc'[w] \notin {"count", "walk"}) =>
                pc'[w] = "cb50"
          /\ (pc[w] = "cb50" /\ pc'[w] # "cb50") => pc'[w] = "group"
          /\ pc[w] = "group" => pc'[w] \notin Phase1]_vars

\* a scan of a tree with files went through both phases and found a group
C22_Witness ==
    /\ pc[1] = "finished"
    /\ NoCallback
    /\ total_files[1] > 0
    /\ duplicate_groups[1] # << >>

(***************************************************************************)
(* Properties of DuplicateFinderThread.stop (SpecStop)                     *)
(***************************************************************************)
\* everything of the program but the _is_running flags
ButIsRunning == <<fs, rootExists, toolVars, infoVars, pc, terminated, scanVars,
                  uiVars, events, emitted, log>>

\* C23: DuplicateFinderThread.stop is idempotent: a call leaves the flag
\* cleared and touches nothing else, so that a call on a thread whose flag
\* is cleared already changes nothing; a call on a thread whose run() has
\* returned changes nothing, and such a thread sends no further
\* notification, whether stop is called on it or not.
C23_StopIdempotent ==
    [][\A w \in Workers :
          /\ Stop(w) =>
                /\ ~is_running'[w]
                /\ \A v \in Workers \ {w} : is_running'[v] = is_running[v]
                /\ UNCHANGED ButIsRunning
                /\ ~is_running[w] => UNCHANGED <<is_running, ButIsRunning>>
                /\ pc[w] = "finished" => UNCHANGED <<is_running, ButIsRunning>>
          /\ pc[w] \in {"finished", "dead"} =>
                /\ pc'[w] = pc[w]
                /\ emitted'[w] = emitted[w]
                /\ \A i \in 1..Len(events') :
                      events'[i].from = w => \E j \in 1..Len(events) : events[j] = events'[i]]_vars

\* stop() was called on a thread during its scan and run() has returned
\* since, so that any later call is a call after the end; another thread is
\* scanning and can be stopped
C23_Witness ==
    \E w, v \in Workers :
        /\ stop_at[w] = "scan"
        /\ pc[w] = "finished"
        /\ ~is_running[w]
        /\ Scanning(v)
        /\ is_running[v]

(***************************************************************************)
(* Properties of the order of the groups (SpecOrder)                       *)
(***************************************************************************)
\* the place of a directory in the walk, of a name in a directory listing
DirIndex(d) == CHOOSE i \in 1..Len(DirOrder) : DirOrder[i] = d
NameIndex(n) == CHOOSE i \in 1..Len(NameOrder) : NameOrder[i] = n

\* the files of the catalog of worker w in directory d
Catalogued(w, d) ==
    UNION { Range(files_by_directory[w][i].items) :
                i \in {j \in 1..Len(files_by_directory[w]) :
                           files_by_directory[w][j].key = d} }

\* where the walk first met, in its directory, the name key of group g
KeyFirst(w, g) ==
    LET key == get_normalized_name(g.paths[1].name)
        same == {NameIndex(q.name) : q \in {r \in Catalogued(w, g.directory) :
                                                get_normalized_name(r.name) = key}}
    IN  CHOOSE i \in same : \A j \in same : i <= j

\* C24: the groups of find_duplicates come in the order in which the walk
\* visited their directories and, within a directory, in the order in which
\* the walk first met their name keys; the members of a group are in the
\* order in which the walk listed them.
C24_GroupOrder ==
    \A w \in Workers :
        LET groups == duplicate_groups[w]
        IN  /\ \A i, j \in 1..Len(groups) :
                  i < j =>
                     /\ DirIndex(groups[i].directory) <= DirIndex(groups[j].directory)
                     /\ groups[i].directory = groups[j].directory =>
                            /\ KeyFirst(w, groups[i]) <= KeyFirst(w, groups[j])
                            /\ get_normalized_name(groups[i].paths[1].name)
                                  # get_normalized_name(groups[j].paths[1].name) =>
                                  KeyFirst(w, groups[i]) < KeyFirst(w, groups[j])
            /\ \A i \in 1..Len(groups) :
                  \A a, b \in 1..Len(groups[i].paths) :
                     a < b => NameIndex(groups[i].paths[a].name)
                                 < NameIndex(groups[i].paths[b].name)

\* the returned list holds two groups of one directory, and the key met
\* first has its second file listed after the files of the other key
C24_Witness ==
    /\ pc[1] = "finished"
    /\ Len(duplicate_groups[1]) = 2
    /\ duplicate_groups[1][1].directory = duplicate_groups[1][2].directory
    /\ get_normalized_name(duplicate_groups[1][1].paths[1].name) = get_normalized_name("b.txt")
    /\ Len(duplicate_groups[1][1].paths) = 2

(***************************************************************************)
(* Properties of get_normalized_name (SpecNames)                           *)
(***************************************************************************)
\* The reference procedure, step by step.  Step 1: the name in lower case,
\* and its extension: the part from the last dot on, when a character
\* other than a dot precedes that dot.
RefLower(x) == [i \in 1..Len(x) |-> LowerChar(x[i])]
RefExtStart(x) ==
    LET starts == {i \in 1..Len(x) :
                      /\ x[i] = "."
                      /\ \A j \in (i+1)..Len(x) : x[j] # "."
                      /\ \E j \in 1..(i-1) : x[j] # "."}
    IN  IF starts = {} THEN Len(x) + 1 ELSE CHOOSE i \in starts : TRUE
RefStem(x) == SubSeq(x, 1, RefExtStart(x) - 1)
RefExt(x) == SubSeq(x, RefExtStart(x), Len(x))

\* Step 2: without a leading "copy of "
RefNoPrefix(stem) ==
    IF Len(stem) >= 8 /\ SubSeq(stem, 1, 8) = <<"c","o","p","y"," ","o","f"," ">>
    THEN SubSeq(stem, 9, Len(stem))
    ELSE stem

\* Step 3: without a trailing "(digits)" and the whitespace around it: the
\* stem is cut at position k when what follows k is whitespace, "(", one
\* digit or more, ")" and whitespace, and no whitespace ends the part kept
RefIsSuffix(t) ==
    \E i, j \in 1..Len(t) :
        /\ i + 1 < j
        /\ t[i] = "(" /\ t[j] = ")"
        /\ \A k \in 1..(i-1) : IsSpace(t[k])
        /\ \A k \in (i+1)..(j-1) : IsDigit(t[k])
        /\ \A k \in (j+1)..Len(t) : IsSpace(t[k])
RefNoSuffix(stem) ==
    LET cuts == {k \in 0..Len(stem) :
                    /\ RefIsSuffix(SubSeq(stem, k + 1, Len(stem)))
                    /\ k > 0 => ~IsSpace(stem[k])}
    IN  IF cuts = {} THEN stem ELSE SubSeq(stem, 1, CHOOSE k \in cuts : TRUE)

\* Step 4: without the whitespace at both ends
RefTrim(t) ==
    LET inner == {i \in 1..Len(t) : ~IsSpace(t[i])}
    IN  IF inner = {} THEN << >>
        ELSE SubSeq(t, CHOOSE i \in inner : \A j \in inner : i <= j,
                       CHOOSE i \in inner : \A j \in inner : j <= i)

Reference(x) ==
    LET low == RefLower(x)
    IN  RefTrim(RefNoSuffix(RefNoPrefix(RefStem(low)))) \o RefExt(low)

\* C25: for every file name, get_normalized_name returns what the
\* reference procedure gives: the name in lower case, split into stem and
\* extension, the stem without a leading "copy of ", without a trailing
\* parenthesised integer and the whitespace around it, and trimmed, then
\* the extension.
C25_MatchesReference ==
    \A i \in 2..Len(names) : names[i] = Reference(names[i-1])

\* a name with the prefix in upper case and the suffix was normalized to "a"
C25_Witness ==
    /\ Len(names) = 2
    /\ names[1] = <<"C","o","p","y"," ","O","f"," ","a","(","1","2",")">>
    /\ names[2] = <<"a">>

\* C27: get_normalized_name is idempotent: applied to its own result it
\* returns that result, also for names with a repeated "copy of " prefix or
\* with several trailing "(n)" suffixes.
C27_Idempotent ==
    Len(names) >= 3 => names[3] = names[2]

(***************************************************************************)
(* Properties of the deletion (SpecCtl)                                    *)
(***************************************************************************)
\* the paths shown in the file rows of the table
ShownPaths == {PathOfRow(duplicates_table[i]) : i \in FileRows}

HandlesStale ==
    /\ mainpc = "idle"
    /\ events # << >>
    /\ events' = Tail(events)
    /\ Head(events).kind \in {"duplicates_found", "error_occurred"}
    /\ duplicate_thread # 0
    /\ Head(events).from # duplicate_thread

\* C28: a terminal notification of a superseded worker, handled after
\* find_duplicates has started a newer worker on an existing directory,
\* leaves the newer scan alone: self.duplicate_thread and self.threads keep
\* referring to the newer worker, and the table does not take the
\* superseded worker's results.
C28_StaleNotificationIgnored ==
    [][(rootExists /\ HandlesStale) =>
          /\ duplicate_thread' = duplicate_thread
          /\ threads' = threads
          /\ duplicates_table' = duplicates_table]_vars

(***************************************************************************)
(* Properties of ClipboardManager.process_queue (SpecClip)                 *)
(***************************************************************************)
\* C30: when storing an entry fails in process_queue, the error is logged,
\* the loop goes on, so that the entries queued later are still processed
\* while running is true, and the connection is back in the pool.
C30_ErrorDoesNotStopLoop ==
    [][failures' > failures =>
          /\ process_pc' = "loop"
          /\ \E entry \in clip_log' : entry[1] = "error"
          /\ connection_pool' = connection_pool]_vars

(***************************************************************************)
(* Properties of organize_downloads (SpecOrg)                              *)
(***************************************************************************)
\* C29: organize_downloads never overwrites: every file of the target
\* folders stays, with its content; a file that leaves the folder arrives
\* under its own name when the target folder has no file of that name, and
\* otherwise under the first name stem_k suffix, k = 1, 2, ..., that the
\* target folder does not have.
C29_NeverOverwrites ==
    [][/\ \A q \in DOMAIN target_files :
             q \in DOMAIN target_files' /\ target_files'[q] = target_files[q]
       /\ \A item \in DOMAIN folder_files \ DOMAIN folder_files' :
             LET existing == NamesIn(target_files, TargetFolder(item))
                 arrived == {q \in DOMAIN target_files' \ DOMAIN target_files :
                                target_files'[q] = folder_files[item]}
             IN  \E q \in arrived :
                    /\ arrived = {q}
                    /\ q.folder = TargetFolder(item)
                    /\ IF item \notin existing
                       THEN q.name = item
                       ELSE \E k \in 1..(Cardinality(existing) + 1) :
                               /\ q.name = Numbered(item, k)
                               /\ \A j \in 1..(k-1) : Numbered(item, j) \in existing
                               /\ q.name \notin existing]_vars

\* "a.txt" was moved to Documents, where a.txt and a_1.txt were, as a_2.txt
C29_Witness ==
    LET a == <<"a">> \o Dot \o <<"t","x","t">>
        a2 == [folder |-> "Documents", name |-> <<"a","_","2">> \o Dot \o <<"t","x","t">>]
    IN  /\ org_pc = "done"
        /\ a2 \in DOMAIN target_files
        /\ target_files[a2] = <<"downloaded", a>>
        /\ [folder |-> "Documents", name |-> a] \in DOMAIN target_files

=============================================================================
